---- MODULE Spec2Model ----
(***************************************************************************)
(* The transcription engine of the speech-to-text benchmark: the factory   *)
(* Engine.create, the caching and accounting of Whisper.transcribe         *)
(* (engine.py) and the whisper.cpp adapter (whisper_cpp_adapter.py).       *)
(*                                                                         *)
(* Conventions of the model                                                *)
(*  - A path is a sequence of tokens; ".flac" occurs in a path only as a   *)
(*    whole token, so str.replace(".flac", ext) is the token-wise          *)
(*    replacement of every ".flac" token.                                  *)
(*  - A text is a sequence of characters; " " stands for any whitespace.   *)
(*  - Durations are whole seconds: frames is a multiple of the sample      *)
(*    rate for the files that pass the sample-rate assertion.              *)
(*  - time.time() is taken to be non-decreasing across one tool run, so    *)
(*    the elapsed time of a run is drawn from 0..MaxElapsed.               *)
(*  - In Spec and FactorySpec a call is one atomic step (calls are         *)
(*    serialized). In ConcSpec a cache-miss call is three steps (Begin,    *)
(*    RunTool, ReadBack) and the calls of two threads interleave.          *)
(***************************************************************************)
EXTENDS Integers, Sequences, FiniteSets, TLC

VARIABLES
    inst,   \* engine id -> the engine object held under that name
    seen,   \* engine id -> audio paths the current object was asked to transcribe
    fs,     \* the filesystem: path -> content, for the files that exist
    env,    \* the process environment: variable name -> value ("" when unset)
    last,   \* the last call: its arguments, its outcome and what it spawned
    calls,  \* thread -> the transcribe call it is in the middle of
    outfor, \* history: the audio path whose tool run wrote the output file last
    cachedby \* history: cache path -> the call and the engine that wrote it

vars == <<inst, seen, fs, env, last, calls, outfor, cachedby>>

(***************************** bounds ***************************************)
MaxElapsed == 1    \* longest wall-clock duration of one tool run, seconds
MaxAudioSec == 3   \* cap on one engine's audio-seconds accumulator

(***************************** engine.py ************************************)
SAMPLE_RATE == 16000

Engines ==
    { "WHISPER_TINY", "WHISPER_BASE", "WHISPER_SMALL", "WHISPER_MEDIUM",
      "WHISPER_LARGE", "WHISPER_LARGE_V2", "WHISPER_LARGE_V3",
      "WHISPER_LARGE_V3_TURBO" }

LANGUAGE_TO_WHISPER_CODE ==
    [ l \in {"EN", "DE", "ES", "FR", "IT", "PT_PT", "PT_BR"} |->
        CASE l = "EN" -> "en"
          [] l = "DE" -> "de"
          [] l = "ES" -> "es"
          [] l = "FR" -> "fr"
          [] l = "IT" -> "it"
          [] l = "PT_PT" -> "pt"
          [] l = "PT_BR" -> "pt" ]

Languages == DOMAIN LANGUAGE_TO_WHISPER_CODE

(************************ whisper_cpp_adapter.py ****************************)
MODEL_TO_FILENAME ==
    [ m \in { "tiny", "tiny.en", "base", "base.en", "small", "small.en",
              "medium", "medium.en", "large", "large-v2", "large-v3",
              "large-v3-turbo" } |->
        CASE m = "tiny" -> "ggml-tiny.bin"
          [] m = "tiny.en" -> "ggml-tiny.en.bin"
          [] m = "base" -> "ggml-base.bin"
          [] m = "base.en" -> "ggml-base.en.bin"
          [] m = "small" -> "ggml-small.bin"
          [] m = "small.en" -> "ggml-small.en.bin"
          [] m = "medium" -> "ggml-medium.bin"
          [] m = "medium.en" -> "ggml-medium.en.bin"
          [] m = "large" -> "ggml-large-v1.bin"
          [] m = "large-v2" -> "ggml-large-v2.bin"
          [] m = "large-v3" -> "ggml-large-v3.bin"
          [] m = "large-v3-turbo" -> "ggml-large-v3-turbo.bin" ]

naming_options == <<"MODEL_PATH", "MODELPATH", "MODEL_DIR", "MODELDIR">>

\* Path("transcription.txt"), relative to the working directory.
output_txt_path == <<"transcription", ".txt">>

(***************************** values ***************************************)
\* What the external tool may write to its output file.
ToolTexts == { <<" ", "a", " ">>, <<"b", " ", "b">>, <<" ">> }

\* The bytes of an audio file, which are no transcript.
AudioBytes == <<"fLaC">>

NoText == <<>>
NoPath == <<>>

\* The object slot before construction and after a failed construction.
NoEngine ==
    [ cls |-> "none", model |-> "", cache_extension |-> "", language_code |-> "",
      audio_sec |-> 0, proc_sec |-> 0 ]

\* A raised exception or a returned value.
Raise(kind, msg) == [kind |-> kind, msg |-> msg]
NoError == Raise("ok", "")

(***************************** inputs ***************************************)
\* The audio files of the corpus. Every ".flac" in a path is a whole token.
AudioPaths ==
    { <<"a", ".flac">>,     \* 16 kHz, 1 s
      <<"b", ".flac">>,     \* 8 kHz
      <<"c", ".wav">> }     \* 16 kHz, 2 s, not a .flac file

\* soundfile.info(path): the sample rate and the frame count of the file.
AudioInfo(path) ==
    CASE path = <<"a", ".flac">> -> [samplerate |-> 16000, frames |-> 16000]
      [] path = <<"b", ".flac">> -> [samplerate |-> 8000, frames |-> 8000]
      [] path = <<"c", ".wav">> -> [samplerate |-> 16000, frames |-> 32000]
      [] path = <<"d", ".flac">> -> [samplerate |-> 16000, frames |-> 16000]

\* What one run of whisper-cli does: its exit code, whether it wrote its output
\* file and with which text, its diagnostic output and how long it took.
ToolRuns ==
    [ rc : {1}, wrote : {FALSE}, out : {NoText}, stderr : {"E1", "E2"}, dt : {0} ]
    \cup [ rc : {0}, wrote : {FALSE}, out : {NoText}, stderr : {""},
           dt : 0..MaxElapsed ]
    \cup [ rc : {0}, wrote : {TRUE}, out : ToolTexts, stderr : {""},
           dt : 0..MaxElapsed ]

\* The run of a call that spawns nothing.
IdleRun == [rc |-> 0, wrote |-> FALSE, out |-> NoText, stderr |-> "", dt |-> 0]

\* The environments a process may be started in.
Environments ==
    { [n \in {"MODEL_PATH", "MODELPATH", "MODEL_DIR", "MODELDIR"} |-> ""],
      [n \in {"MODEL_PATH", "MODELPATH", "MODEL_DIR", "MODELDIR"} |->
          IF n = "MODEL_DIR" THEN "/d" ELSE ""] }

EngineIds == {"e1"}

\* The threads that call transcribe at the same time.
Threads == {"t1", "t2"}

\* The audio files and the factory's inputs of the interleaved calls.
ConcPaths == { <<"a", ".flac">>, <<"d", ".flac">> }
ConcEngineInputs == {"WHISPER_TINY"}
ConcLanguages == {"EN"}

\* Variant tags handed to the factory: the members of Engines and two that are not.
EngineInputs == Engines \cup {"WHISPER_HUGE", "tiny"}

\* The inputs of the factory in the specification of the transcribe calls.
SpecEngineInputs ==
    {"WHISPER_TINY", "WHISPER_BASE", "WHISPER_LARGE", "WHISPER_HUGE", "tiny"}
SpecLanguages == {"EN", "DE"}

(***************************** text *****************************************)
RECURSIVE LStrip(_)
LStrip(t) == IF t # <<>> /\ Head(t) = " " THEN LStrip(Tail(t)) ELSE t

RECURSIVE RStrip(_)
RStrip(t) ==
    IF t # <<>> /\ t[Len(t)] = " " THEN RStrip(SubSeq(t, 1, Len(t) - 1)) ELSE t

\* str.strip()
Strip(t) == RStrip(LStrip(t))

\* str.replace(old, new) on a path, token by token.
Replace(path, old, new) ==
    [i \in 1..Len(path) |-> IF path[i] = old THEN new ELSE path[i]]

(***************************** the adapter **********************************)
\* WhisperCppModel.__init__: the error it raises, if any.
WhisperCppModel_init(model) ==
    IF model \notin DOMAIN MODEL_TO_FILENAME
    THEN Raise("ValueError", model)
    ELSE NoError

\* A default directory stands in when no variable is set.
ModelPathOrDefault(environ) ==
    LET set == {i \in 1..Len(naming_options) : environ[naming_options[i]] # ""}
    IN  IF set = {} THEN "models"
        ELSE environ[naming_options[CHOOSE i \in set : \A j \in set : i <= j]]

\* The first of naming_options that is set and non-empty, "" when there is none.
ModelPath(environ) ==
    LET set == {i \in 1..Len(naming_options) : environ[naming_options[i]] # ""}
    IN  IF set = {} THEN ""
        ELSE environ[naming_options[CHOOSE i \in set : \A j \in set : i <= j]]

\* The files after one run of whisper-cli: it may write its fixed output file.
ToolEffect(files, run) ==
    IF run.wrote
    THEN [p \in DOMAIN files \cup {output_txt_path} |->
            IF p = output_txt_path THEN run.out ELSE files[p]]
    ELSE files

\* The return code is not looked at.
ToolFailedNever(run) == FALSE

\* if result.returncode != 0
ToolFailed(run) == run.rc # 0

\* The transcript read from the output file after a successful run.
ReadOutput(files) ==
    IF output_txt_path \in DOMAIN files
    THEN [err |-> NoError, text |-> Strip(files[output_txt_path])]
    ELSE [err |-> Raise("FileNotFoundError", "transcription.txt"), text |-> NoText]

\* WhisperCppModel.transcribe: the error or the text, the files afterwards, the
\* number of processes spawned and the command line's model file.
WhisperCppModel_transcribe(model, audio_path, language, files, environ, run) ==
    LET model_path == ModelPath(environ)
        after == ToolEffect(files, run)
        read == ReadOutput(after)
    IN  IF model_path = ""
        THEN [err |-> Raise("EnvironmentError", "MODEL_PATH"), text |-> NoText,
              files |-> files, spawned |-> 0]
        ELSE IF ToolFailed(run)
        THEN [err |-> Raise("RuntimeError", run.stderr), text |-> NoText,
              files |-> after, spawned |-> 1]
        ELSE [err |-> read.err, text |-> read.text, files |-> after, spawned |-> 1]

(***************************** the engines **********************************)
\* Whisper.__init__: the error it raises or the object it initialises.
Whisper_init(cls, cache_extension, model, language) ==
    LET made == WhisperCppModel_init(model)
    IN  IF made.kind # "ok" THEN [err |-> made, obj |-> NoEngine]
        ELSE IF language \notin DOMAIN LANGUAGE_TO_WHISPER_CODE
        THEN [err |-> Raise("KeyError", language), obj |-> NoEngine]
        ELSE [err |-> NoError,
              obj |-> [ cls |-> cls, model |-> model,
                        cache_extension |-> cache_extension,
                        language_code |-> LANGUAGE_TO_WHISPER_CODE[language],
                        audio_sec |-> 0, proc_sec |-> 0 ]]

\* A cache extension that follows the language-specialised model.
WhisperTinyPerLanguage(language) ==
    Whisper_init("WhisperTiny", IF language = "EN" THEN ".wspt.en" ELSE ".wspt",
                 IF language = "EN" THEN "tiny.en" ELSE "tiny", language)

WhisperTiny(language) ==
    Whisper_init("WhisperTiny", ".wspt",
                 IF language = "EN" THEN "tiny.en" ELSE "tiny", language)

WhisperBase(language) ==
    Whisper_init("WhisperBase", ".wspb",
                 IF language = "EN" THEN "base.en" ELSE "base", language)

WhisperSmall(language) ==
    Whisper_init("WhisperSmall", ".wsps",
                 IF language = "EN" THEN "small.en" ELSE "small", language)

WhisperMedium(language) ==
    Whisper_init("WhisperMedium", ".wspm",
                 IF language = "EN" THEN "medium.en" ELSE "medium", language)

WhisperLarge(language) ==
    Whisper_init("WhisperLarge", ".wspl", "large-v1", language)

WhisperLargeV2(language) ==
    Whisper_init("WhisperLargeV2", ".wspl2", "large-v2", language)

WhisperLargeV3(language) ==
    Whisper_init("WhisperLargeV3", ".wspl3", "large-v3", language)

WhisperLargeV3Turbo(language) ==
    Whisper_init("WhisperLargeV3Turbo", ".wspl3t", "large-v3-turbo", language)

\* An unknown tag falls back to the smallest engine.
CreateUnknownAsTiny(x) == WhisperTiny("EN")

\* The else branch of Engine.create: the tag is not a member of Engines.
CreateUnknown(x) == [err |-> Raise("ValueError", x), obj |-> NoEngine]

\* Engine.create
Engine_create(x, language) ==
    CASE x = "WHISPER_TINY" -> WhisperTiny(language)
      [] x = "WHISPER_BASE" -> WhisperBase(language)
      [] x = "WHISPER_SMALL" -> WhisperSmall(language)
      [] x = "WHISPER_MEDIUM" -> WhisperMedium(language)
      [] x = "WHISPER_LARGE" -> WhisperLarge(language)
      [] x = "WHISPER_LARGE_V2" -> WhisperLargeV2(language)
      [] x = "WHISPER_LARGE_V3" -> WhisperLargeV3(language)
      [] x = "WHISPER_LARGE_V3_TURBO" -> WhisperLargeV3Turbo(language)
      [] OTHER -> CreateUnknown(x)

\* __str__ of the engine classes.
Whisper_str(self) ==
    CASE self.cls = "WhisperTiny" -> "Whisper Tiny"
      [] self.cls = "WhisperBase" -> "Whisper Base"
      [] self.cls = "WhisperSmall" -> "Whisper Small"
      [] self.cls = "WhisperMedium" -> "Whisper Medium"
      [] self.cls = "WhisperLarge" -> "Whisper Large-v1"
      [] self.cls = "WhisperLargeV2" -> "Whisper Large-v2"
      [] self.cls = "WhisperLargeV3" -> "Whisper Large-v3"
      [] self.cls = "WhisperLargeV3Turbo" -> "Whisper Large-v3-turbo"

(***************************** transcribe ***********************************)
\* One cache file per audio file, whatever the variant.
CachePathNoVariant(path, cache_extension) == Replace(path, ".flac", ".txt")

\* cache_path = path.replace(".flac", self._cache_extension)
CachePath(path, cache_extension) == Replace(path, ".flac", cache_extension)

\* The assertion is compiled away.
SampleRateUnchecked(info) == TRUE

\* assert info.samplerate == SAMPLE_RATE
SampleRateOk(info) == info.samplerate = SAMPLE_RATE

\* The frames are added, not the seconds.
AddAudioFrames(self, info) == [self EXCEPT !.audio_sec = @ + info.frames]

\* self._audio_sec += info.frames / info.samplerate
AddAudio(self, info) ==
    [self EXCEPT !.audio_sec = @ + (info.frames \div info.samplerate)]

\* self._proc_sec += time.time() - start_sec
AddProc(self, dt) == [self EXCEPT !.proc_sec = @ + dt]

\* The cache is never found.
ExistsNever(files, path) == FALSE

\* os.path.exists(cache_path)
Exists(files, path) == path \in DOMAIN files

\* with open(cache_path) as f: res = f.read()
\* A file that holds audio bytes either fails to decode or is returned as it is.
ReadCache(files, cache_path, decodable) ==
    IF files[cache_path] = AudioBytes /\ ~decodable
    THEN [err |-> Raise("UnicodeDecodeError", "utf-8"), text |-> NoText]
    ELSE [err |-> NoError, text |-> files[cache_path]]

\* with open(cache_path, "w") as f: f.write(res)
WriteCache(files, cache_path, res) ==
    [p \in DOMAIN files \cup {cache_path} |-> IF p = cache_path THEN res ELSE files[p]]

\* Whisper.transcribe: the error or the text, the object and the files afterwards,
\* and the number of processes spawned.
Whisper_transcribe(self, path, files, environ, run, decodable) ==
    LET info == AudioInfo(path)
        counted == AddAudio(self, info)
        cache_path == CachePath(path, self.cache_extension)
        hit == ReadCache(files, cache_path, decodable)
        res == WhisperCppModel_transcribe(self.model, path, self.language_code,
                                          files, environ, run)
    IN  IF ~SampleRateOk(info)
        THEN [err |-> Raise("AssertionError", ""), text |-> NoText, self |-> self,
              files |-> files, spawned |-> 0]
        ELSE IF Exists(files, cache_path)
        THEN [err |-> hit.err, text |-> hit.text, self |-> counted,
              files |-> files, spawned |-> 0]
        ELSE IF res.err.kind # "ok"
        THEN [err |-> res.err, text |-> NoText, self |-> counted,
              files |-> res.files, spawned |-> res.spawned]
        ELSE [err |-> NoError, text |-> res.text, self |-> AddProc(counted, run.dt),
              files |-> WriteCache(res.files, cache_path, res.text),
              spawned |-> res.spawned]

(***************************** the state machine ****************************)
\* The call reaches subprocess.run: only then does the tool's behaviour matter.
ReachesTool(self, path) ==
    /\ SampleRateOk(AudioInfo(path))
    /\ ~Exists(fs, CachePath(path, self.cache_extension))
    /\ ModelPath(env) # ""

RunChoices(self, path) == IF ReachesTool(self, path) THEN ToolRuns ELSE {IdleRun}

\* The call reads audio bytes as text: only then does decoding matter.
DecodeChoices(self, path) ==
    IF /\ Exists(fs, CachePath(path, self.cache_extension))
       /\ fs[CachePath(path, self.cache_extension)] = AudioBytes
    THEN BOOLEAN ELSE {TRUE}

NoCall ==
    [ op |-> "none", id |-> "", x |-> "", language |-> "", path |-> NoPath,
      err |-> NoError, text |-> NoText, spawned |-> 0, run |-> IdleRun,
      src |-> NoPath, overlapped |-> FALSE ]

\* A thread that is in no call.
IdleCall ==
    [ pc |-> "idle", id |-> "", path |-> NoPath, run |-> IdleRun,
      overlapped |-> FALSE ]

AllIdle == \A t \in Threads : calls[t].pc = "idle"

\* The cache files written so far, with cache_path added for a call of self.
Cached(by, cache_path, path, self) ==
    [p \in DOMAIN by \cup {cache_path} |->
        IF p = cache_path
        THEN [path |-> path, cls |-> self.cls, language_code |-> self.language_code]
        ELSE by[p]]

InitWith(paths) ==
    /\ inst = [e \in EngineIds |-> NoEngine]
    /\ seen = [e \in EngineIds |-> {}]
    /\ fs = [p \in paths |-> AudioBytes]
    /\ env \in Environments
    /\ last = NoCall
    /\ calls = [t \in Threads |-> IdleCall]
    /\ outfor = NoPath
    /\ cachedby = [p \in {} |-> IdleCall]

Init == InitWith(AudioPaths)

\* e = Engine.create(x, language): a failed call leaves e bound as it was.
Create(e, x, language) ==
    LET made == Engine_create(x, language)
    IN  /\ inst' = IF made.err.kind = "ok" THEN [inst EXCEPT ![e] = made.obj] ELSE inst
        /\ seen' = IF made.err.kind = "ok" THEN [seen EXCEPT ![e] = {}] ELSE seen
        /\ last' = [NoCall EXCEPT !.op = "create", !.id = e, !.x = x,
                                  !.language = language, !.err = made.err]
        /\ UNCHANGED <<fs, env, calls, outfor, cachedby>>

\* e.transcribe(path)
Transcribe(e, path, run, decodable) ==
    LET r == Whisper_transcribe(inst[e], path, fs, env, run, decodable)
        wrote == r.spawned > 0 /\ run.wrote
        cached == r.spawned > 0 /\ r.err.kind = "ok"
    IN  /\ inst[e].cls # "none"
        /\ inst[e].audio_sec + (AudioInfo(path).frames \div AudioInfo(path).samplerate)
               <= MaxAudioSec
        /\ AllIdle
        /\ inst' = [inst EXCEPT ![e] = r.self]
        /\ seen' = [seen EXCEPT ![e] = @ \cup {path}]
        /\ fs' = r.files
        /\ outfor' = IF wrote THEN path ELSE outfor
        /\ cachedby' = IF cached
                       THEN Cached(cachedby, CachePath(path, inst[e].cache_extension),
                                   path, inst[e])
                       ELSE cachedby
        /\ last' = [NoCall EXCEPT !.op = "transcribe", !.id = e, !.path = path,
                                  !.err = r.err, !.text = r.text,
                                  !.spawned = r.spawned,
                                  !.run = IF r.spawned = 0 THEN IdleRun ELSE run,
                                  !.src = IF cached THEN outfor' ELSE NoPath]
        /\ UNCHANGED <<env, calls>>

\* str(e)
Str(e) ==
    /\ inst[e].cls # "none"
    /\ last' = [NoCall EXCEPT !.op = "str", !.id = e,
                              !.text = <<Whisper_str(inst[e])>>]
    /\ UNCHANGED <<inst, seen, fs, env, calls, outfor, cachedby>>

Next ==
    \/ \E e \in EngineIds, x \in SpecEngineInputs, language \in SpecLanguages :
          Create(e, x, language)
    \/ \E e \in EngineIds, path \in AudioPaths :
          \E run \in RunChoices(inst[e], path), decodable \in DecodeChoices(inst[e], path) :
              Transcribe(e, path, run, decodable)

Spec == Init /\ [][Next]_vars

\* The factory alone, over every variant tag and every language.
FactoryNext ==
    \/ \E e \in EngineIds, x \in EngineInputs, language \in Languages :
          Create(e, x, language)
    \/ \E e \in EngineIds : Str(e)

FactorySpec == Init /\ [][FactoryNext]_vars

(***************************** interleaved calls ****************************)
\* The call of thread t returns or raises: it becomes the last call.
Return(t, e, path, err, text, spawned, run, src) ==
    /\ last' = [NoCall EXCEPT !.op = "transcribe", !.id = e, !.path = path,
                              !.err = err, !.text = text, !.spawned = spawned,
                              !.run = run, !.src = src,
                              !.overlapped = calls[t].overlapped]
    /\ calls' = [calls EXCEPT ![t] = IdleCall]

\* Whisper.transcribe up to the cache lookup (engine.py 105-113): the call
\* ends here when the assertion fails or the cache file exists.
Begin(t, e, path, decodable) ==
    LET self == inst[e]
        info == AudioInfo(path)
        cache_path == CachePath(path, self.cache_extension)
        hit == ReadCache(fs, cache_path, decodable)
        others == \E u \in Threads \ {t} : calls[u].pc # "idle"
    IN  /\ calls[t].pc = "idle"
        /\ self.cls # "none"
        /\ self.audio_sec + (info.frames \div info.samplerate) <= MaxAudioSec
        /\ seen' = [seen EXCEPT ![e] = @ \cup {path}]
        /\ IF ~SampleRateOk(info)
           THEN /\ Return(t, e, path, Raise("AssertionError", ""), NoText, 0,
                          IdleRun, NoPath)
                /\ UNCHANGED inst
           ELSE IF Exists(fs, cache_path)
           THEN /\ Return(t, e, path, hit.err, hit.text, 0, IdleRun, NoPath)
                /\ inst' = [inst EXCEPT ![e] = AddAudio(self, info)]
           ELSE /\ calls' = [u \in Threads |->
                                IF u = t
                                THEN [ pc |-> "spawn", id |-> e, path |-> path,
                                       run |-> IdleRun, overlapped |-> others ]
                                ELSE IF calls[u].pc # "idle"
                                THEN [calls[u] EXCEPT !.overlapped = TRUE]
                                ELSE calls[u]]
                /\ inst' = [inst EXCEPT ![e] = AddAudio(self, info)]
                /\ UNCHANGED last
        /\ UNCHANGED <<fs, env, outfor, cachedby>>

\* WhisperCppModel.transcribe up to the return-code check
\* (whisper_cpp_adapter.py 29-57): the tool runs and may write its output file.
RunTool(t, run) ==
    LET c == calls[t]
    IN  /\ c.pc = "spawn"
        /\ IF ModelPath(env) = ""
           THEN /\ Return(t, c.id, c.path, Raise("EnvironmentError", "MODEL_PATH"),
                          NoText, 0, IdleRun, NoPath)
                /\ UNCHANGED <<fs, outfor>>
           ELSE /\ fs' = ToolEffect(fs, run)
                /\ outfor' = IF run.wrote THEN c.path ELSE outfor
                /\ IF ToolFailed(run)
                   THEN Return(t, c.id, c.path, Raise("RuntimeError", run.stderr),
                               NoText, 1, run, NoPath)
                   ELSE /\ calls' = [calls EXCEPT ![t].pc = "read", ![t].run = run]
                        /\ UNCHANGED last
        /\ UNCHANGED <<inst, seen, env, cachedby>>

\* The rest of the call (whisper_cpp_adapter.py 59-64, engine.py 116-122): the
\* output file is read, the time is counted and the cache file is written.
ReadBack(t) ==
    LET c == calls[t]
        self == inst[c.id]
        cache_path == CachePath(c.path, self.cache_extension)
        read == ReadOutput(fs)
    IN  /\ c.pc = "read"
        /\ IF read.err.kind # "ok"
           THEN /\ Return(t, c.id, c.path, read.err, NoText, 1, c.run, NoPath)
                /\ UNCHANGED <<inst, fs, cachedby>>
           ELSE /\ Return(t, c.id, c.path, NoError, read.text, 1, c.run, outfor)
                /\ inst' = [inst EXCEPT ![c.id] = AddProc(self, c.run.dt)]
                /\ fs' = WriteCache(fs, cache_path, read.text)
                /\ cachedby' = Cached(cachedby, cache_path, c.path, self)
        /\ UNCHANGED <<seen, env, outfor>>

ConcInit == InitWith(ConcPaths)

\* An engine is made while no call is running; the calls of the threads interleave.
ConcNext ==
    \/ \E e \in EngineIds, x \in ConcEngineInputs, language \in ConcLanguages :
          AllIdle /\ Create(e, x, language)
    \/ \E t \in Threads, e \in EngineIds, path \in ConcPaths :
          Begin(t, e, path, TRUE)
    \/ \E t \in Threads, run \in ToolRuns : RunTool(t, run)
    \/ \E t \in Threads : ReadBack(t)

ConcSpec == ConcInit /\ [][ConcNext]_vars

(***************************** properties ***********************************)
\* The step is a transcribe call. In a transcribe step the object's cache
\* extension does not change, so the call's cache path is the same before and after.
TranscribeStep == last'.op = "transcribe"

\* The cache path of the call that the step makes.
StepCachePath == CachePath(last'.path, inst[last'.id].cache_extension)

\* The length, in seconds, of the audio file of the call that the step makes.
StepDuration == AudioInfo(last'.path).frames \div AudioInfo(last'.path).samplerate

\* The call's cache file is on disk before the call, and after it.
HitBefore == StepCachePath \in DOMAIN fs
CachedAfter == StepCachePath \in DOMAIN fs'

\* The files other than the adapter's output file are kept as they are.
CacheKept ==
    \A p \in DOMAIN fs :
        p # output_txt_path => (p \in DOMAIN fs' /\ fs'[p] = fs[p])

(* C1, as stated: for every engine instance and every audio path that this     *)
(* instance has not seen before, a transcribe call that returns (on a 16 kHz   *)
(* file whose cache path is not the audio path itself) has invoked the         *)
(* external tool exactly once and has created the cache file.                  *)
C1_FirstCallInvokesTool ==
    [][ ( /\ TranscribeStep
          /\ last'.path \notin seen[last'.id]
          /\ StepCachePath # last'.path
          /\ last'.err.kind = "ok" )
        => ( /\ last'.spawned = 1
             /\ CachedAfter ) ]_vars

(* C1, amended: a transcribe call on a path whose cache file does not exist,   *)
(* when it returns, has invoked the external tool exactly once, returns the    *)
(* stripped content of the adapter's output file and has created the cache     *)
(* file with that text; a transcribe call on a path whose cache file exists    *)
(* returns that file's text without invoking the tool, and no call changes a   *)
(* cache file that exists, so a second call returns the identical text.        *)
C1_CacheMissThenHit ==
    [][ TranscribeStep =>
          /\ ( ~HitBefore /\ last'.err.kind = "ok" )
             => ( /\ last'.spawned = 1
                  /\ last'.text = Strip(fs'[output_txt_path])
                  /\ CachedAfter
                  /\ fs'[StepCachePath] = last'.text )
          /\ ( HitBefore /\ last'.err.kind = "ok" )
             => ( /\ last'.spawned = 0
                  /\ last'.text = fs[StepCachePath]
                  /\ fs' = fs )
          /\ CacheKept ]_vars

\* One instance has transcribed a.flac by running the tool (one second of
\* processing) and then again from the cache.
C1_Witness ==
    /\ last.op = "transcribe" /\ last.path = <<"a", ".flac">>
    /\ last.err.kind = "ok" /\ last.spawned = 0 /\ last.text = <<"a">>
    /\ seen[last.id] = {<<"a", ".flac">>}
    /\ inst[last.id].audio_sec = 2 /\ inst[last.id].proc_sec = 1

(* C2: a transcribe call that passes the sample-rate check adds the file's     *)
(* duration to audio_sec(), on a cache hit as on a cache miss; process_sec()   *)
(* never decreases, changes only in a call that missed the cache and ran the   *)
(* tool, and is unchanged by a cache hit.                                      *)
C2_Accounting ==
    [][ TranscribeStep =>
          LET before == inst[last'.id]
              after == inst'[last'.id]
          IN  /\ SampleRateOk(AudioInfo(last'.path))
                 => after.audio_sec = before.audio_sec + StepDuration
              /\ after.proc_sec >= before.proc_sec
              /\ after.proc_sec # before.proc_sec
                 => ( ~HitBefore /\ last'.spawned = 1 )
              /\ HitBefore => after.proc_sec = before.proc_sec ]_vars

\* A cache hit by an instance that has spent processing time before.
C2_Witness ==
    /\ last.op = "transcribe" /\ last.path = <<"a", ".flac">>
    /\ last.err.kind = "ok" /\ last.spawned = 0
    /\ inst[last.id].audio_sec = 3 /\ inst[last.id].proc_sec = 1

(* C3: a transcribe call on a file whose sample rate is not 16000 Hz fails     *)
(* with the assertion's error, spawns no process, leaves every file as it was  *)
(* and leaves both counters as they were.                                      *)
C3_SampleRateRejected ==
    [][ ( TranscribeStep /\ AudioInfo(last'.path).samplerate # SAMPLE_RATE )
        => ( /\ last'.err.kind = "AssertionError"
             /\ last'.spawned = 0
             /\ fs' = fs
             /\ inst' = inst ) ]_vars

\* The 8 kHz file is rejected by an instance that has counted audio and
\* processing time, with a cache file on disk.
C3_Witness ==
    /\ last.op = "transcribe" /\ last.path = <<"b", ".flac">>
    /\ last.err.kind = "AssertionError"
    /\ inst[last.id].audio_sec > 0 /\ inst[last.id].proc_sec > 0
    /\ CachePath(<<"a", ".flac">>, inst[last.id].cache_extension) \in DOMAIN fs

\* The cache extension of the engine that the factory makes for a variant.
ExtensionOf(x) == Engine_create(x, "DE").obj.cache_extension

\* The variants that the factory can make.
Constructible == {x \in Engines : Engine_create(x, "DE").err.kind = "ok"}

(* C4: Engine.create with a variant tag that is not a member of Engines fails  *)
(* with a ValueError that names the rejected tag, binds no new engine object   *)
(* and leaves every file as it was.                                            *)
C4_UnknownVariantRejected ==
    [][ ( last'.op = "create" /\ last'.x \notin Engines )
        => ( /\ last'.err = Raise("ValueError", last'.x)
             /\ inst' = inst
             /\ fs' = fs ) ]_vars

\* An unknown tag is rejected while an engine that has worked is held and a
\* cache file is on disk.
C4_Witness ==
    /\ last.op = "create" /\ last.x = "WHISPER_HUGE"
    /\ last.err.kind = "ValueError"
    /\ inst[last.id].cls = "WhisperBase" /\ inst[last.id].audio_sec > 0
    /\ <<"a", ".wspb">> \in DOMAIN fs

(* C5: for every member of Engines and every language, Engine.create returns   *)
(* an engine whose model tag is a key of MODEL_TO_FILENAME.                   *)
C5_EveryVariantConstructs ==
    ( last.op = "create" /\ last.x \in Engines /\ last.language \in Languages )
    => ( /\ last.err.kind = "ok"
         /\ inst[last.id].model \in DOMAIN MODEL_TO_FILENAME )

C7_VariantCachePathsDiffer ==
    /\ \A x1, x2 \in Constructible :
          x1 # x2 => ExtensionOf(x1) # ExtensionOf(x2)
    /\ last.op = "transcribe"
       => \A x \in Constructible :
             ExtensionOf(x) # inst[last.id].cache_extension
             => CachePath(last.path, ExtensionOf(x))
                    # CachePath(last.path, inst[last.id].cache_extension)

(* C8: when the tool exits with a non-zero code, the call fails with a         *)
(* RuntimeError carrying the tool's stderr, the tool was run once in that      *)
(* call, no cache file is written and no processing time is counted; and a     *)
(* call that passes the sample-rate check, misses the cache and finds a model  *)
(* path runs the tool, so the path is tried again by a later call.             *)
C8_ToolFailureNotCached ==
    [][ TranscribeStep =>
          /\ ( last'.spawned > 0 /\ last'.run.rc # 0 )
             => ( /\ last'.err = Raise("RuntimeError", last'.run.stderr)
                  /\ last'.spawned = 1
                  /\ ~CachedAfter
                  /\ inst'[last'.id].proc_sec = inst[last'.id].proc_sec )
          /\ ( /\ AudioInfo(last'.path).samplerate = SAMPLE_RATE
               /\ ~HitBefore
               /\ \E n \in DOMAIN env : env[n] # "" )
             => last'.spawned = 1 ]_vars

\* The tool has failed on a.flac in the second call of one instance on that
\* path: the first call left no cache file, so the tool was run again.
C8_Witness ==
    /\ last.op = "transcribe" /\ last.path = <<"a", ".flac">>
    /\ last.err = Raise("RuntimeError", "E2") /\ last.spawned = 1
    /\ seen[last.id] = {<<"a", ".flac">>}
    /\ inst[last.id].audio_sec = 2

(* C9: the cache path of a transcribe call differs from the audio path of the  *)
(* call.                                                                       *)
C9_CachePathIsNotAudioPath ==
    last.op = "transcribe"
    => CachePath(last.path, inst[last.id].cache_extension) # last.path

(* C10: a transcribe call whose tool run exits with code 0 and writes no       *)
(* output file does not return normally.                                       *)
C10_MissingOutputIsFatal ==
    ( /\ last.op = "transcribe" /\ last.spawned = 1
      /\ last.run.rc = 0 /\ ~last.run.wrote )
    => last.err.kind # "ok"

\* A call has run the tool and returned a text that the tool wrote for the
\* audio of another call.
Misattributed ==
    /\ last.op = "transcribe" /\ last.err.kind = "ok" /\ last.spawned = 1
    /\ last.src # last.path

(* C11: a call returns and caches the output produced for another call's       *)
(* audio only when calls overlap: a call during which no other call was        *)
(* running returns the text that the tool wrote for its own audio.             *)
C11_SerializedCallsGetOwnOutput ==
    ( /\ last.op = "transcribe" /\ last.err.kind = "ok" /\ last.spawned = 1
      /\ ~last.overlapped )
    => last.src = last.path

\* Two overlapping cache-miss calls have interleaved: the last call's own tool
\* run wrote its output, and the call has returned and cached the text that the
\* tool wrote for the other call's audio.
C11_Witness ==
    /\ Misattributed
    /\ last.overlapped /\ last.run.wrote
    /\ last.text # Strip(last.run.out)
    /\ fs[CachePath(last.path, inst[last.id].cache_extension)] = last.text

\* What holds of the interleaved calls: a call returns another audio's text
\* only if it overlapped another call or its own tool run wrote no output.
C11_MisattributionNeedsOverlapOrNoOutput ==
    Misattributed => ( last.overlapped \/ ~last.run.wrote )

\* The cache path of the call that the step makes, as engine.py 109 computes it.
OwnCachePath == Replace(last'.path, ".flac", inst[last'.id].cache_extension)

(* C12: under serialized transcribe calls by any engine instances, every file  *)
(* that exists before a call (the adapter's output file aside) exists          *)
(* unchanged after it, and a file that a call adds is the cache file of the    *)
(* call's own path and variant, added on a cache miss that ran the tool and    *)
(* returned, holding exactly the stripped text of the tool's output file,      *)
(* which is the text the call returns.                                         *)
C12_CacheWrittenOnceOnOwnMiss ==
    [][ TranscribeStep =>
          /\ CacheKept
          /\ \A p \in (DOMAIN fs') \ (DOMAIN fs) :
                p # output_txt_path =>
                  /\ p = OwnCachePath
                  /\ last'.err.kind = "ok"
                  /\ last'.spawned = 1
                  /\ fs'[p] = last'.text
                  /\ fs'[p] = Strip(fs'[output_txt_path]) ]_vars

\* WhisperBase has just cached its transcript of a.flac next to the different
\* transcript that WhisperTiny cached for a.flac before, which is still there.
C12_Witness ==
    /\ last.op = "transcribe" /\ last.err.kind = "ok" /\ last.spawned = 1
    /\ last.path = <<"a", ".flac">>
    /\ inst[last.id].cls = "WhisperBase"
    /\ <<"a", ".wspb">> \in DOMAIN fs /\ fs[<<"a", ".wspb">>] = last.text
    /\ <<"a", ".wspt">> \in DOMAIN fs /\ fs[<<"a", ".wspt">>] # last.text

\* The cache files that an engine of the variant of the step's engine, created
\* for another language, has written for the step's audio path.
CachedForOtherLanguage ==
    { cp \in DOMAIN cachedby :
        /\ cachedby[cp].path = last'.path
        /\ cachedby[cp].cls = inst[last'.id].cls
        /\ cachedby[cp].language_code # inst[last'.id].language_code }

(* C13: after an engine of variant V and language L1 has cached the transcript *)
(* of path p, a transcribe call for p on an engine of the same variant V       *)
(* created for a different language L2 returns that cached text, does not      *)
(* invoke the tool and leaves the engine's process_sec as it was.              *)
C13_CacheSharedAcrossLanguages ==
    [][ ( TranscribeStep /\ CachedForOtherLanguage # {} ) =>
          /\ last'.err.kind = "ok"
          /\ last'.spawned = 0
          /\ \A cp \in CachedForOtherLanguage :
                cp \in DOMAIN fs /\ last'.text = fs[cp]
          /\ inst'[last'.id].proc_sec = inst[last'.id].proc_sec
          /\ UNCHANGED fs ]_vars

\* A German WhisperTiny engine (model "tiny") that has run no tool has returned
\* for a.flac the text that an English WhisperTiny engine cached.
C13_Witness ==
    /\ last.op = "transcribe" /\ last.err.kind = "ok" /\ last.spawned = 0
    /\ last.path = <<"a", ".flac">>
    /\ inst[last.id].cls = "WhisperTiny"
    /\ inst[last.id].language_code = "de" /\ inst[last.id].model = "tiny"
    /\ inst[last.id].proc_sec = 0
    /\ <<"a", ".wspt">> \in DOMAIN cachedby
    /\ cachedby[<<"a", ".wspt">>].language_code = "en"
    /\ cachedby[<<"a", ".wspt">>].cls = "WhisperTiny"
    /\ last.text = fs[<<"a", ".wspt">>]
    /\ last.text # NoText

====
